---- MODULE Spec2Model ----
(***************************************************************************)
(* form2chat: the conversational form engine (src/lib/engine.ts) and its   *)
(* earlier revision (src/unnamed/part_006).  A session row of the sessions *)
(* table is driven by the turns start, message (answer / back / restart),  *)
(* upload acknowledgement and submit; submissions is the append-only log   *)
(* and files the table of uploaded-file rows.  Spec takes each turn as one *)
(* step; SpecFail adds the turns whose second store statement throws, and  *)
(* SpecRace splits a turn into its read and its write for two callers.     *)
(*                                                                         *)
(* Strings are sequences of one-character strings so that trim(),          *)
(* toLowerCase() and Number() are computed, not assumed.  Field indexes    *)
(* are 0-based as in the source; TLA+ sequences are 1-based.               *)
(***************************************************************************)
EXTENDS Integers, Sequences, FiniteSets, TLC

VARIABLES sessions, submissions, files, form, impl, inflight,
          lastTurn, lastResp, validTurns

vars == <<sessions, submissions, files, form, impl, inflight,
          lastTurn, lastResp, validTurns>>

----------------------------------------------------------------------------
(* Bounds of the model *)

MaxTargetCount == 2
MaxSubmissions == 2
MaxOverflow == 1
MaxInFlight == 2

----------------------------------------------------------------------------
(* JavaScript string primitives *)

S_empty   == <<>>
S_A       == <<"A">>
S_B       == <<"B">>
S_padb    == <<" ", "b">>
S_2       == <<"2">>
S_back    == <<"b", "a", "c", "k">>
S_Back    == <<"B", "a", "c", "k", " ">>
S_restart == <<"r", "e", "s", "t", "a", "r", "t">>

Digits == <<"0", "1", "2", "3", "4", "5", "6", "7", "8", "9">>

IsDigit(c) == \E d \in 1..10 : Digits[d] = c

DigitVal(c) == (CHOOSE d \in 1..10 : Digits[d] = c) - 1

LowerChar(c) ==
  CASE c = "A" -> "a"
    [] c = "B" -> "b"
    [] OTHER -> c

toLowerCase(s) == [i \in 1..Len(s) |-> LowerChar(s[i])]

RECURSIVE trimStart(_)
trimStart(s) ==
  IF s # <<>> /\ Head(s) = " " THEN trimStart(Tail(s)) ELSE s

RECURSIVE trimEnd(_)
trimEnd(s) ==
  IF s # <<>> /\ s[Len(s)] = " " THEN trimEnd(SubSeq(s, 1, Len(s) - 1)) ELSE s

trim(s) == trimEnd(trimStart(s))

RECURSIVE DecimalValue(_)
DecimalValue(s) ==
  IF s = <<>> THEN 0
  ELSE 10 * DecimalValue(SubSeq(s, 1, Len(s) - 1)) + DigitVal(s[Len(s)])

(* Number(raw): surrounding whitespace is ignored, the empty string is 0,  *)
(* an unsigned run of digits is its decimal value, anything else is NaN.   *)
NumberOf(s) ==
  LET t == trim(s) IN
  IF t = <<>> THEN [nan |-> FALSE, n |-> 0]
  ELSE IF \A i \in 1..Len(t) : IsDigit(t[i])
       THEN [nan |-> FALSE, n |-> DecimalValue(t)]
       ELSE [nan |-> TRUE, n |-> 0]

(* Stored answer values: a string, a number or a file-metadata object.     *)
StrVal(s)  == [k |-> "string", s |-> s, n |-> 0]
NumVal(n)  == [k |-> "number", s |-> <<>>, n |-> n]
FileVal(f) == [k |-> "file", s |-> f.name, n |-> f.sizeBytes]

----------------------------------------------------------------------------
(* Form definitions (the files loadForm reads) *)

NoOptions == <<>>

TextField(id, required) ==
  [id |-> id, type |-> "text", required |-> required, options |-> NoOptions,
   email |-> FALSE, hasMin |-> FALSE, min |-> 0, hasMax |-> FALSE, max |-> 0]

SelectField(id, options) ==
  [id |-> id, type |-> "select", required |-> FALSE, options |-> options,
   email |-> FALSE, hasMin |-> FALSE, min |-> 0, hasMax |-> FALSE, max |-> 0]

NumberField(id, lo, hi) ==
  [id |-> id, type |-> "number", required |-> FALSE, options |-> NoOptions,
   email |-> FALSE, hasMin |-> TRUE, min |-> lo, hasMax |-> TRUE, max |-> hi]

FileField(id) ==
  [id |-> id, type |-> "file", required |-> TRUE, options |-> NoOptions,
   email |-> FALSE, hasMin |-> FALSE, min |-> 0, hasMax |-> FALSE, max |-> 0]

OptionsAB == <<S_A, S_B>>

RefsFields   == <<TextField("name", TRUE), SelectField("role", OptionsAB)>>
UploadFields == <<FileField("doc")>>
IntakeFields == <<FileField("doc"), NumberField("age", 1, 5), SelectField("role", OptionsAB)>>

(* The forms of several fields take one or two records; the one-field      *)
(* upload form takes up to MaxTargetCount.                                 *)
FormDefs ==
  { [id |-> "refs",   targetCount |-> n, fields |-> RefsFields]   : n \in 1..2 } \cup
  { [id |-> "upload", targetCount |-> n, fields |-> UploadFields] : n \in 1..MaxTargetCount } \cup
  { [id |-> "intake", targetCount |-> n, fields |-> IntakeFields] : n \in 1..2 }

(* form.fields[i], 0-based; FieldAt is only applied where HasField holds.  *)
HasField(f, i) == i >= 0 /\ i < Len(f.fields)
FieldAt(f, i)  == f.fields[i + 1]

Max(a, b) == IF a >= b THEN a ELSE b
Min(a, b) == IF a <= b THEN a ELSE b

----------------------------------------------------------------------------
(* The sessions table and the engine state kept in sessions.answers_json   *)

SessionIds == {"s1"}

EmptyDraft == [k \in {} |-> [k |-> "string", s |-> <<>>, n |-> 0]]

EmptyState == [__refs |-> <<>>, __draft |-> EmptyDraft]

(* The column default '{}' is a flat object; saveState writes              *)
(* JSON.stringify(state), an object with both __refs and __draft.          *)
DefaultJson == [shape |-> "flat", __refs |-> <<>>, __draft |-> EmptyDraft]

stringify(state) ==
  [shape |-> "state", __refs |-> state.__refs, __draft |-> state.__draft]

(* A stored text that JSON.parse rejects: nothing of it can be read.        *)
MalformedJson == [shape |-> "malformed", __refs |-> <<>>, __draft |-> EmptyDraft]

parseState(json) ==
  IF json.shape = "malformed"
  THEN EmptyState
  ELSE IF json.shape = "flat"
  THEN [__refs |-> <<>>, __draft |-> json.__draft]
  ELSE [__refs |-> json.__refs, __draft |-> json.__draft]

NoRow ==
  [exists |-> FALSE, field_index |-> 0, answers_json |-> DefaultJson, status |-> "in_progress"]

NewRow ==
  [exists |-> TRUE, field_index |-> 0, answers_json |-> DefaultJson, status |-> "in_progress"]

getSessionRow_assumesRow(db, sid) == [db.sessions[sid] EXCEPT !.exists = TRUE]

getSessionRow(db, sid) == db.sessions[sid]

upsertSession_noInsert(db, sid) == db

upsertSession_replaces(db, sid) ==
  [db EXCEPT !.sessions[sid] = NewRow]

upsertSession(db, sid) ==
  IF db.sessions[sid].exists THEN db
  ELSE [db EXCEPT !.sessions[sid] = NewRow]

saveState(db, sid, fieldIndex, state, status) ==
  IF db.sessions[sid].exists
  THEN [db EXCEPT !.sessions[sid] =
          [exists |-> TRUE, field_index |-> fieldIndex,
           answers_json |-> stringify(state), status |-> status]]
  ELSE db

(* The files table.  A row is kept without its generated id and creation   *)
(* time, and the table as the set of its rows.                             *)
FileRow(sid, fieldId, file) ==
  [session_id |-> sid, field_id |-> fieldId, original_name |-> file.name]

InsertFile(db, row) == [db EXCEPT !.files = @ \cup {row}]

(* draft[fieldId] = value  and  delete draft[fieldId] *)
DraftSet(draft, id, v) ==
  [k \in (DOMAIN draft) \cup {id} |-> IF k = id THEN v ELSE draft[k]]

DraftDelete_keepsKey(draft, id) == draft

DraftDelete(draft, id) ==
  [k \in (DOMAIN draft) \ {id} |-> draft[k]]

----------------------------------------------------------------------------
(* Responses.  message is the kind of text sent; ack is 0 when the message *)
(* carries no acknowledgment prefix, else the index of the ACKS phrase.    *)

ACKS == <<"Got it.", "Perfect", "Nice.", "Awesome, thanks.">>

AckChoices == 1..Len(ACKS)

NoProgress == [done |-> 0, total |-> 0]

Response(kind, sid, fieldId, message, progress, hasState, state) ==
  [kind |-> kind, sessionId |-> sid, fieldId |-> fieldId, message |-> message,
   ack |-> 0, progress |-> progress, hasState |-> hasState, answers_json |-> state]

NoResponse == Response("none", "", "", "", NoProgress, FALSE, EmptyState)

(* An uncaught TypeError: the turn fails with whatever was written so far. *)
Thrown(db, sid) ==
  [db |-> db, res |-> Response("throw", sid, "", "TypeError", NoProgress, FALSE, EmptyState)]

withAck(res, ack) ==
  IF res.kind = "ask" THEN [res EXCEPT !.ack = ack] ELSE res

----------------------------------------------------------------------------
(* Validator, src/lib/engine.ts *)

Ok(v)    == [ok |-> TRUE, value |-> v, error |-> ""]
Err(msg) == [ok |-> FALSE, value |-> StrVal(<<>>), error |-> msg]

Includes_any(opts, raw) == TRUE

Includes(opts, raw) == \E j \in 1..Len(opts) : opts[j] = raw

(* /^[^\s@]+@[^\s@]+\.[^\s@]+$/ *)
EmailOk(t) ==
  \E i \in 1..Len(t) : \E j \in 1..Len(t) :
     /\ t[i] = "@" /\ t[j] = "."
     /\ 1 < i /\ i + 1 < j /\ j < Len(t)
     /\ \A m \in 1..Len(t) : t[m] # " " /\ (t[m] = "@" => m = i)

validate(field, raw) ==
  IF field.type # "file" /\ field.required /\ trim(raw) = <<>>
  THEN Err("enter_value")
  ELSE IF field.type = "number"
  THEN (IF NumberOf(raw).nan THEN Err("valid_number") ELSE Ok(NumVal(NumberOf(raw).n)))
  ELSE IF field.type = "select"
  THEN (IF ~Includes(field.options, raw) THEN Err("choose_option") ELSE Ok(StrVal(raw)))
  ELSE IF field.type = "text" /\ field.email
  THEN (IF ~EmailOk(trim(raw)) THEN Err("valid_email") ELSE Ok(StrVal(trim(raw))))
  ELSE Ok(StrVal(raw))

----------------------------------------------------------------------------
(* Progress and prompts, src/lib/engine.ts *)

progressFor_cursorOnly(session, f) ==
  LET state     == parseState(session.answers_json)
      fieldsPer == Len(f.fields)
      totalRefs == Max(1, f.targetCount)
      doneRefs  == Len(state.__refs)
      fieldIndex == session.field_index
  IN [done |-> Min(fieldIndex, totalRefs * fieldsPer),
      total |-> totalRefs * fieldsPer,
      doneRefs |-> doneRefs, totalRefs |-> totalRefs,
      state |-> state, fieldIndex |-> fieldIndex]

progressFor(session, f) ==
  LET state     == parseState(session.answers_json)
      fieldsPer == Len(f.fields)
      totalRefs == Max(1, f.targetCount)
      doneRefs  == Len(state.__refs)
      fieldIndex == session.field_index
  IN [done |-> Min(doneRefs * fieldsPer + fieldIndex, totalRefs * fieldsPer),
      total |-> totalRefs * fieldsPer,
      doneRefs |-> doneRefs, totalRefs |-> totalRefs,
      state |-> state, fieldIndex |-> fieldIndex]

ReviewResponse(sid, state, total) ==
  Response("review", sid, "", "review", [done |-> total, total |-> total], TRUE, state)

responseFromState_ignoresCursor(f, sid, state, fieldIndex) ==
  LET fieldsPer == Len(f.fields)
      totalRefs == Max(1, f.targetCount)
      doneRefs  == Len(state.__refs)
      total     == totalRefs * fieldsPer
      done      == Min(doneRefs * fieldsPer, total)
  IN IF doneRefs >= totalRefs THEN ReviewResponse(sid, state, total)
     ELSE IF ~HasField(f, fieldIndex)
     THEN Response("throw", sid, "", "TypeError", NoProgress, FALSE, EmptyState)
     ELSE LET field == FieldAt(f, fieldIndex) IN
          Response("ask", sid, field.id,
                   IF field.type = "file" THEN "upload_with_header" ELSE "label",
                   [done |-> done, total |-> total], TRUE, state)

responseFromState(f, sid, state, fieldIndex) ==
  LET fieldsPer == Len(f.fields)
      totalRefs == Max(1, f.targetCount)
      doneRefs  == Len(state.__refs)
      total     == totalRefs * fieldsPer
      done      == Min(doneRefs * fieldsPer + fieldIndex, total)
  IN IF doneRefs >= totalRefs THEN ReviewResponse(sid, state, total)
     ELSE IF ~HasField(f, fieldIndex)
     THEN Response("throw", sid, "", "TypeError", NoProgress, FALSE, EmptyState)
     ELSE LET field == FieldAt(f, fieldIndex) IN
          Response("ask", sid, field.id,
                   IF field.type = "file" THEN "upload_with_header" ELSE "label",
                   [done |-> done, total |-> total], TRUE, state)

startOrContinue(db, f, sid) ==
  LET db1     == upsertSession(db, sid)
      session == db1.sessions[sid]
      p       == progressFor(session, f)
  IN IF session.status = "submitted"
     THEN [db |-> db1,
           res |-> Response("done", sid, "", "already_submitted", NoProgress, TRUE,
                            parseState(session.answers_json))]
     ELSE IF p.doneRefs >= p.totalRefs
     THEN [db |-> db1, res |-> ReviewResponse(sid, p.state, p.total)]
     ELSE IF ~HasField(f, p.fieldIndex) THEN Thrown(db1, sid)
     ELSE LET field == FieldAt(f, p.fieldIndex) IN
          [db |-> db1,
           res |-> Response("ask", sid, field.id,
                            IF field.type = "file" THEN "upload_with_header" ELSE "label",
                            [done |-> p.done, total |-> p.total], TRUE, p.state)]

----------------------------------------------------------------------------
(* Turn handlers, src/lib/engine.ts.  Each returns the database after the  *)
(* turn and the response.                                                  *)

Last(seq)    == seq[Len(seq)]
Front(seq)   == SubSeq(seq, 1, Len(seq) - 1)

PopLastIntoDraft_cursorAtLength(db, f, sid, state) ==
  LET popped == [__refs |-> Front(state.__refs), __draft |-> Last(state.__refs)]
  IN [db  |-> saveState(db, sid, Len(f.fields), popped, "in_progress"),
      res |-> responseFromState(f, sid, popped, Max(0, Len(f.fields) - 1))]

(* last = state.__refs.pop(); state.__draft = {...last}; cursor = F - 1 *)
PopLastIntoDraft(db, f, sid, state) ==
  LET popped == [__refs |-> Front(state.__refs), __draft |-> Last(state.__refs)]
      lastFieldIndex == Max(0, Len(f.fields) - 1)
  IN [db  |-> saveState(db, sid, lastFieldIndex, popped, "in_progress"),
      res |-> responseFromState(f, sid, popped, lastFieldIndex)]

goBackOne(db, f, sid) ==
  LET session == getSessionRow(db, sid) IN
  IF ~session.exists THEN startOrContinue(db, f, sid)
  ELSE
  LET p     == progressFor(session, f)
      state == p.state
      idx   == p.fieldIndex
  IN IF p.doneRefs >= p.totalRefs
     THEN (IF Len(state.__refs) > 0
           THEN PopLastIntoDraft(db, f, sid, state)
           ELSE startOrContinue(saveState(db, sid, 0, EmptyState, "in_progress"), f, sid))
     ELSE IF idx > 0
     THEN (IF ~HasField(f, idx - 1) THEN Thrown(db, sid)
           ELSE LET prevField == FieldAt(f, idx - 1)
                    st == [state EXCEPT !.__draft = DraftDelete(state.__draft, prevField.id)]
                IN [db  |-> saveState(db, sid, idx - 1, st, "in_progress"),
                    res |-> responseFromState(f, sid, st, idx - 1)])
     ELSE IF Len(state.__refs) > 0
     THEN PopLastIntoDraft(db, f, sid, state)
     ELSE startOrContinue(saveState(db, sid, 0, EmptyState, "in_progress"), f, sid)

CommitDraft_keepsDraft(state) ==
  [__refs |-> Append(state.__refs, state.__draft), __draft |-> state.__draft]

(* state.__refs.push({...state.__draft}); state.__draft = {} *)
CommitDraft(state) ==
  [__refs |-> Append(state.__refs, state.__draft), __draft |-> EmptyDraft]

Restart_keepsCommitted(db, f, sid) ==
  startOrContinue(
    saveState(db, sid, 0,
              [__refs |-> parseState(db.sessions[sid].answers_json).__refs,
               __draft |-> EmptyDraft],
              "in_progress"),
    f, sid)

(* cmd === "restart" *)
Restart(db, f, sid) ==
  startOrContinue(saveState(db, sid, 0, EmptyState, "in_progress"), f, sid)

handleUserMessage(db, f, sid, userText, ack) ==
  LET db1     == upsertSession(db, sid)
      session == db1.sessions[sid]
      state   == parseState(session.answers_json)
      cmd     == toLowerCase(trim(userText))
      p       == progressFor(session, f)
      i       == p.fieldIndex
  IN IF cmd = S_restart
     THEN Restart(db1, f, sid)
     ELSE IF cmd = S_back
     THEN goBackOne(db1, f, sid)
     ELSE IF p.doneRefs >= p.totalRefs
     THEN [db |-> db1, res |-> ReviewResponse(sid, state, p.total)]
     ELSE IF ~HasField(f, i) THEN Thrown(db1, sid)
     ELSE
     LET field == FieldAt(f, i)
         v     == validate(field, userText)
         prog  == [done |-> p.done, total |-> p.total]
     IN IF field.type = "file"
        THEN [db |-> db1, res |-> Response("ask", sid, field.id, "upload", prog, TRUE, state)]
        ELSE IF ~v.ok
        THEN [db |-> db1, res |-> Response("ask", sid, field.id, v.error, prog, TRUE, state)]
        ELSE
        LET drafted == [state EXCEPT !.__draft = DraftSet(state.__draft, field.id, v.value)]
            nextFieldIndex == i + 1
        IN IF nextFieldIndex >= Len(f.fields)
           THEN LET st == CommitDraft(drafted) IN
                IF Len(st.__refs) < f.targetCount
                THEN [db  |-> saveState(db1, sid, 0, st, "in_progress"),
                      res |-> withAck(responseFromState(f, sid, st, 0), ack)]
                ELSE [db  |-> saveState(db1, sid, 0, st, "in_progress"),
                      res |-> responseFromState(f, sid, st, 0)]
           ELSE [db  |-> saveState(db1, sid, nextFieldIndex, drafted, "in_progress"),
                 res |-> withAck(responseFromState(f, sid, drafted, nextFieldIndex), ack)]

recordFileAndAdvance_anyFileField(db, f, sid, fieldId, file, ack) ==
  LET db1     == upsertSession(db, sid)
      session == db1.sessions[sid]
      state   == parseState(session.answers_json)
      p       == progressFor(session, f)
  IN IF \/ ~HasField(f, p.fieldIndex)
        \/ FieldAt(f, p.fieldIndex).type # "file"
     THEN startOrContinue(db1, f, sid)
     ELSE
     LET db2     == InsertFile(db1, FileRow(sid, fieldId, file))
         drafted == [state EXCEPT !.__draft = DraftSet(state.__draft, fieldId, FileVal(file))]
         nextFieldIndex == p.fieldIndex + 1
     IN IF nextFieldIndex >= Len(f.fields)
        THEN LET st == CommitDraft(drafted) IN
             [db  |-> saveState(db2, sid, 0, st, "in_progress"),
              res |-> withAck(responseFromState(f, sid, st, 0), ack)]
        ELSE [db  |-> saveState(db2, sid, nextFieldIndex, drafted, "in_progress"),
              res |-> withAck(responseFromState(f, sid, drafted, nextFieldIndex), ack)]

recordFileAndAdvance(db, f, sid, fieldId, file, ack) ==
  LET db1     == upsertSession(db, sid)
      session == db1.sessions[sid]
      state   == parseState(session.answers_json)
      p       == progressFor(session, f)
  IN IF \/ ~HasField(f, p.fieldIndex)
        \/ FieldAt(f, p.fieldIndex).id # fieldId
        \/ FieldAt(f, p.fieldIndex).type # "file"
     THEN startOrContinue(db1, f, sid)
     ELSE
     LET db2     == InsertFile(db1, FileRow(sid, fieldId, file))
         drafted == [state EXCEPT !.__draft = DraftSet(state.__draft, fieldId, FileVal(file))]
         nextFieldIndex == p.fieldIndex + 1
     IN IF nextFieldIndex >= Len(f.fields)
        THEN LET st == CommitDraft(drafted) IN
             [db  |-> saveState(db2, sid, 0, st, "in_progress"),
              res |-> withAck(responseFromState(f, sid, st, 0), ack)]
        ELSE [db  |-> saveState(db2, sid, nextFieldIndex, drafted, "in_progress"),
              res |-> withAck(responseFromState(f, sid, drafted, nextFieldIndex), ack)]

IsBlank(v) == v.k = "string" /\ trim(v.s) = <<>>

isDraftComplete(f, draft) ==
  /\ \A j \in 1..Len(f.fields) :
        f.fields[j].required =>
          /\ f.fields[j].id \in DOMAIN draft
          /\ ~IsBlank(draft[f.fields[j].id])
  /\ DOMAIN draft # {}
  /\ \A j \in 1..Len(f.fields) :
        /\ f.fields[j].id \in DOMAIN draft
        /\ ~IsBlank(draft[f.fields[j].id])

commitDraftIfComplete(f, state) ==
  IF Len(state.__refs) > 0 THEN state
  ELSE IF isDraftComplete(f, state.__draft) THEN CommitDraft(state)
  ELSE state

(* A row of the submissions table.  The log is write-only for the engine;  *)
(* a row keeps the number of records of the JSON snapshot it stores.       *)
Snapshot(state) ==
  [refs |-> Len(state.__refs)]

SubmissionRow(sid, formId, snapshot) ==
  [session_id |-> sid, form_id |-> formId, answers_json |-> snapshot]

InsertSubmission(db, row) == [db EXCEPT !.submissions = Append(@, row)]

submitSession(db, f, sid) ==
  LET session == getSessionRow(db, sid) IN
  IF ~session.exists
  THEN [db |-> db, res |-> Response("done", sid, "", "not_found", NoProgress, TRUE, EmptyState)]
  ELSE
  LET state == commitDraftIfComplete(f, parseState(session.answers_json))
      db1   == InsertSubmission(db, SubmissionRow(sid, f.id, Snapshot(state)))
      p     == progressFor(session, f)
  IN [db  |-> saveState(db1, sid, p.fieldIndex, state, "submitted"),
      res |-> Response("done", sid, "", "submitted", NoProgress, TRUE, state)]

----------------------------------------------------------------------------
(* The earlier revision of the engine, src/unnamed/part_006.  Its          *)
(* responses carry no answers_json and are re-read from the store.         *)

withAck_p006(res, ack) ==
  IF res.kind = "ask" \/ res.kind = "review" THEN [res EXCEPT !.ack = ack] ELSE res

(* options.find((o) => o.toLowerCase() === normalized) *)
FindOption(opts, normalized) ==
  IF \E j \in 1..Len(opts) : toLowerCase(opts[j]) = normalized
  THEN opts[CHOOSE j \in 1..Len(opts) :
              /\ toLowerCase(opts[j]) = normalized
              /\ \A m \in 1..(j - 1) : toLowerCase(opts[m]) # normalized]
  ELSE <<>>

validate_p006(field, raw) ==
  IF field.type # "file" /\ field.required /\ trim(raw) = <<>>
  THEN Err("enter_value")
  ELSE IF field.type = "text"
  THEN (IF field.email
        THEN (IF ~EmailOk(trim(raw)) THEN Err("valid_email") ELSE Ok(StrVal(trim(raw))))
        ELSE Ok(StrVal(trim(raw))))
  ELSE IF field.type = "number"
  THEN LET num == NumberOf(raw) IN
       IF num.nan THEN Err("valid_number")
       ELSE IF field.hasMin /\ num.n < field.min THEN Err("number_min")
       ELSE IF field.hasMax /\ num.n > field.max THEN Err("number_max")
       ELSE Ok(NumVal(num.n))
  ELSE IF field.type = "select"
  THEN LET normalized == toLowerCase(trim(raw))
           idx        == NumberOf(normalized)
           match      == FindOption(field.options, normalized)
       IN IF ~idx.nan /\ idx.n >= 1 /\ idx.n <= Len(field.options)
          THEN Ok(StrVal(field.options[idx.n]))
          ELSE IF match = <<>> THEN Err("choose_option")
          ELSE Ok(StrVal(match))
  ELSE Ok(StrVal(trim(raw)))

startOrContinue_p006(db, f, sid) ==
  LET db1     == upsertSession(db, sid)
      session == db1.sessions[sid]
      p       == progressFor(session, f)
  IN IF session.status = "submitted"
     THEN [db |-> db1,
           res |-> Response("done", sid, "", "already_submitted", NoProgress, FALSE, EmptyState)]
     ELSE IF p.doneRefs >= p.totalRefs
     THEN [db |-> db1,
           res |-> Response("review", sid, "", "review",
                            [done |-> p.total, total |-> p.total], FALSE, EmptyState)]
     ELSE IF ~HasField(f, p.fieldIndex) THEN Thrown(db1, sid)
     ELSE [db |-> db1,
           res |-> Response("ask", sid, FieldAt(f, p.fieldIndex).id, "label",
                            [done |-> p.done, total |-> p.total], FALSE, EmptyState)]

goBackOne_p006(db, f, sid) ==
  LET session == getSessionRow(db, sid) IN
  IF ~session.exists THEN startOrContinue_p006(db, f, sid)
  ELSE
  LET p          == progressFor(session, f)
      state      == p.state
      fieldIndex == p.fieldIndex
      fieldsPer  == Len(f.fields)
  IN IF p.doneRefs = 0 /\ fieldIndex <= 0
     THEN startOrContinue_p006(saveState(db, sid, 0, state, "in_progress"), f, sid)
     ELSE IF fieldIndex > 0
     THEN (IF ~HasField(f, fieldIndex - 1) THEN Thrown(db, sid)
           ELSE LET prevField == FieldAt(f, fieldIndex - 1)
                    st == [state EXCEPT !.__draft = DraftDelete(state.__draft, prevField.id)]
                IN startOrContinue_p006(saveState(db, sid, fieldIndex - 1, st, "in_progress"), f, sid))
     ELSE LET st == [state EXCEPT !.__refs = Front(state.__refs)] IN
          IF fieldsPer = 0 THEN Thrown(saveState(db, sid, fieldsPer - 1, st, "in_progress"), sid)
          ELSE [db  |-> saveState(db, sid, fieldsPer - 1, st, "in_progress"),
                res |-> Response("ask", sid, FieldAt(f, fieldsPer - 1).id, "back_to_reference",
                                 [done  |-> Min(Len(st.__refs) * fieldsPer + (fieldsPer - 1),
                                                p.totalRefs * fieldsPer),
                                  total |-> p.totalRefs * fieldsPer],
                                 FALSE, EmptyState)]

handleUserMessage_p006(db, f, sid, userText, ack) ==
  LET db1     == upsertSession(db, sid)
      session == db1.sessions[sid]
      state   == parseState(session.answers_json)
      cmd     == toLowerCase(trim(userText))
      p       == progressFor(session, f)
      i       == p.fieldIndex
      Reread(db2) == LET r == startOrContinue_p006(db2, f, sid)
                     IN [db |-> r.db, res |-> withAck_p006(r.res, ack)]
  IN IF cmd = S_restart
     THEN startOrContinue_p006(saveState(db1, sid, 0, EmptyState, "in_progress"), f, sid)
     ELSE IF cmd = S_back
     THEN goBackOne_p006(db1, f, sid)
     ELSE IF p.doneRefs >= p.totalRefs
     THEN [db |-> db1,
           res |-> Response("review", sid, "", "review",
                            [done |-> p.total, total |-> p.total], FALSE, EmptyState)]
     ELSE IF ~HasField(f, i) THEN Thrown(db1, sid)
     ELSE
     LET field == FieldAt(f, i)
         v     == validate_p006(field, userText)
         prog  == [done |-> p.done, total |-> p.total]
     IN IF field.type = "file"
        THEN [db |-> db1, res |-> Response("ask", sid, field.id, "upload", prog, FALSE, EmptyState)]
        ELSE IF ~v.ok
        THEN [db |-> db1, res |-> Response("ask", sid, field.id, v.error, prog, FALSE, EmptyState)]
        ELSE
        LET drafted == [state EXCEPT !.__draft = DraftSet(state.__draft, field.id, v.value)]
            nextFieldIndex == i + 1
        IN IF nextFieldIndex >= Len(f.fields)
           THEN Reread(saveState(db1, sid, 0, CommitDraft(drafted), "in_progress"))
           ELSE Reread(saveState(db1, sid, nextFieldIndex, drafted, "in_progress"))

recordFileAndAdvance_p006(db, f, sid, fieldId, file, ack) ==
  LET db1     == upsertSession(db, sid)
      session == db1.sessions[sid]
      state   == parseState(session.answers_json)
      p       == progressFor(session, f)
      Reread(db2) == LET r == startOrContinue_p006(db2, f, sid)
                     IN [db |-> r.db, res |-> withAck_p006(r.res, ack)]
  IN IF \/ ~HasField(f, p.fieldIndex)
        \/ FieldAt(f, p.fieldIndex).id # fieldId
        \/ FieldAt(f, p.fieldIndex).type # "file"
     THEN startOrContinue_p006(db1, f, sid)
     ELSE
     LET db2     == InsertFile(db1, FileRow(sid, fieldId, file))
         drafted == [state EXCEPT !.__draft = DraftSet(state.__draft, fieldId, FileVal(file))]
         nextFieldIndex == p.fieldIndex + 1
     IN IF nextFieldIndex >= Len(f.fields)
        THEN Reread(saveState(db2, sid, 0, CommitDraft(drafted), "in_progress"))
        ELSE Reread(saveState(db2, sid, nextFieldIndex, drafted, "in_progress"))

submitSession_p006(db, f, sid) ==
  LET session == getSessionRow(db, sid) IN
  IF ~session.exists
  THEN [db |-> db, res |-> Response("done", sid, "", "not_found", NoProgress, FALSE, EmptyState)]
  ELSE
  LET state == parseState(session.answers_json)
      db1   == InsertSubmission(db, SubmissionRow(sid, f.id,
                 Snapshot([__refs |-> state.__refs, __draft |-> EmptyDraft])))
  IN [db  |-> saveState(db1, sid, session.field_index, state, "submitted"),
      res |-> Response("done", sid, "", "submitted", NoProgress, FALSE, EmptyState)]

----------------------------------------------------------------------------
(* The turns a client can send *)

TurnTexts == {S_empty, S_A, S_padb, S_2, S_Back, S_restart}

FileMetas == { [fileId |-> "u1", name |-> <<"c", "v">>, mime |-> "application/pdf", sizeBytes |-> 1] }

UploadFieldIds == {"doc", "role"}

DB == [sessions |-> sessions, submissions |-> submissions, files |-> files]

(* The callers of the engine: each is idle or holds the session row it has *)
(* read for a turn it has not finished.                                    *)
Clients == {"c1", "c2"}

Idle == [pc |-> "idle", op |-> "none", text |-> <<>>, row |-> NoRow]

Turn(op, text, fieldId) == [op |-> op, text |-> text, fieldId |-> fieldId]

IsCommand(text) == toLowerCase(trim(text)) \in {S_restart, S_back}

Validate(field, raw) ==
  IF impl = "engine_ts" THEN validate(field, raw) ELSE validate_p006(field, raw)

TotalRefs == Max(1, form.targetCount)
FieldsPer == Len(form.fields)
Total     == TotalRefs * FieldsPer

(* The session is being asked a field (ASK): in progress, records missing. *)
InAsk(row) ==
  /\ row.status = "in_progress"
  /\ Len(parseState(row.answers_json).__refs) < TotalRefs
  /\ HasField(form, row.field_index)

(* A turn the engine accepts as the answer to the field it is asking: a    *)
(* text the Validator accepts for a non-file field, or the upload of the   *)
(* file field at the cursor.                                               *)
ValidAnswer(row, turn) ==
  /\ InAsk(row)
  /\ LET field == FieldAt(form, row.field_index) IN
     \/ /\ turn.op = "message"
        /\ ~IsCommand(turn.text)
        /\ field.type # "file"
        /\ Validate(field, turn.text).ok
     \/ /\ turn.op = "upload"
        /\ field.type = "file"
        /\ field.id = turn.fieldId

(* validTurns counts the valid answers given since the session was fresh,  *)
(* and is -1 once any other turn has been taken.                           *)
NextValidTurns(sid, turn) ==
  IF validTurns >= 0 /\ ValidAnswer(sessions[sid], turn) THEN validTurns + 1
  ELSE IF validTurns = 0 /\ turn.op = "start" THEN 0
  ELSE -1

Apply(sid, r, turn) ==
  /\ sessions' = r.db.sessions
  /\ submissions' = r.db.submissions
  /\ files' = r.db.files
  /\ lastResp' = r.res
  /\ lastTurn' = [op |-> turn.op, text |-> turn.text, fieldId |-> turn.fieldId,
                  accepted |-> ValidAnswer(sessions[sid], turn),
                  afterAccepted |-> lastTurn.accepted]
  /\ validTurns' = NextValidTurns(sid, turn)
  /\ UNCHANGED <<form, impl, inflight>>

Refs(sid) == parseState(sessions[sid].answers_json).__refs
Draft(sid) == parseState(sessions[sid].answers_json).__draft

Init ==
  /\ sessions = [sid \in SessionIds |-> NoRow]
  /\ submissions = <<>>
  /\ files = {}
  /\ inflight = [c \in Clients |-> Idle]
  /\ form \in FormDefs
  /\ impl \in {"engine_ts", "part_006"}
  /\ lastTurn = [op |-> "none", text |-> <<>>, fieldId |-> "",
                 accepted |-> FALSE, afterAccepted |-> FALSE]
  /\ lastResp = NoResponse
  /\ validTurns = 0

(* pickAck(): the phrase of an acknowledged response is chosen at random. *)
PhraseChoices(res) == IF res.ack = 0 THEN {0} ELSE AckChoices

Start(sid) ==
  Apply(sid, IF impl = "engine_ts" THEN startOrContinue(DB, form, sid)
        ELSE startOrContinue_p006(DB, form, sid),
        Turn("start", <<>>, ""))

Message(sid, text) ==
  LET r == IF impl = "engine_ts" THEN handleUserMessage(DB, form, sid, text, 1)
           ELSE handleUserMessage_p006(DB, form, sid, text, 1)
  IN \E ack \in PhraseChoices(r.res) :
        Apply(sid, [r EXCEPT !.res.ack = ack], Turn("message", text, ""))

Upload(sid, fieldId, file) ==
  /\ Len(Refs(sid)) < Max(1, form.targetCount) + MaxOverflow
  /\ LET r == IF impl = "engine_ts" THEN recordFileAndAdvance(DB, form, sid, fieldId, file, 1)
              ELSE recordFileAndAdvance_p006(DB, form, sid, fieldId, file, 1)
     IN \E ack \in PhraseChoices(r.res) :
           Apply(sid, [r EXCEPT !.res.ack = ack], Turn("upload", <<>>, fieldId))

Submit(sid) ==
  /\ Len(submissions) < MaxSubmissions
  /\ Apply(sid, IF impl = "engine_ts" THEN submitSession(DB, form, sid)
           ELSE submitSession_p006(DB, form, sid),
           Turn("submit", <<>>, ""))

Next ==
  \/ \E sid \in SessionIds : Start(sid)
  \/ \E sid \in SessionIds, text \in TurnTexts : Message(sid, text)
  \/ \E sid \in SessionIds, fieldId \in UploadFieldIds, file \in FileMetas :
        Upload(sid, fieldId, file)
  \/ \E sid \in SessionIds : Submit(sid)

Spec == Init /\ [][Next]_vars

----------------------------------------------------------------------------
(* Properties *)

Row(sid)    == sessions[sid]
Cursor(sid) == sessions[sid].field_index

(* C1: from a fresh session, N*F consecutive valid answers/uploads give    *)
(* REVIEW exactly on the N*F-th turn, with N committed records and an      *)
(* empty draft; every earlier one of these turns gives ASK.                *)
C1_ValidRunReachesReview ==
  \A sid \in SessionIds :
    validTurns >= 1 =>
      /\ validTurns < Total => lastResp.kind = "ask"
      /\ validTurns = Total =>
           /\ lastResp.kind = "review"
           /\ Len(Refs(sid)) = TotalRefs
           /\ Draft(sid) = EmptyDraft
      /\ validTurns <= Total

C1_Witness ==
  /\ validTurns = Total
  /\ form.targetCount = 2
  /\ FieldsPer >= 2
  /\ lastResp.kind = "review"

(* C2: committed.length <= targetRecordCount in every reachable state.     *)
C2_CommittedWithinTarget ==
  \A sid \in SessionIds : Len(Refs(sid)) <= TotalRefs

----------------------------------------------------------------------------
(* Turns applied to a database value, for properties that compare the      *)
(* outcomes of alternative or successive turns from one state.             *)

MessageTurn(text)  == Turn("message", text, "")
UploadTurn(id)     == Turn("upload", <<>>, id)
BackTurn           == MessageTurn(S_back)

TheFile == CHOOSE file \in FileMetas : TRUE

ApplyTurn(db, sid, turn) ==
  IF turn.op = "message"
  THEN (IF impl = "engine_ts" THEN handleUserMessage(db, form, sid, turn.text, 1)
        ELSE handleUserMessage_p006(db, form, sid, turn.text, 1))
  ELSE IF turn.op = "upload"
  THEN (IF impl = "engine_ts" THEN recordFileAndAdvance(db, form, sid, turn.fieldId, TheFile, 1)
        ELSE recordFileAndAdvance_p006(db, form, sid, turn.fieldId, TheFile, 1))
  ELSE IF turn.op = "submit"
  THEN (IF impl = "engine_ts" THEN submitSession(db, form, sid)
        ELSE submitSession_p006(db, form, sid))
  ELSE (IF impl = "engine_ts" THEN startOrContinue(db, form, sid)
        ELSE startOrContinue_p006(db, form, sid))

AnswerTurns ==
  { MessageTurn(text) : text \in TurnTexts } \cup { UploadTurn(id) : id \in UploadFieldIds }

IsRestart(turn) == turn.op = "message" /\ toLowerCase(trim(turn.text)) = S_restart
IsBack(turn)    == turn.op = "message" /\ toLowerCase(trim(turn.text)) = S_back

AnswerOrUpload(turn) ==
  \/ turn.op = "message" /\ ~IsCommand(turn.text)
  \/ turn.op = "upload"

HasProgress(res) == res.kind \in {"ask", "review"}

SameSession(r1, r2) ==
  /\ r1.field_index = r2.field_index
  /\ r1.status = r2.status
  /\ parseState(r1.answers_json) = parseState(r2.answers_json)

(* C3: once submitted, a session is frozen: an answer, back, restart,      *)
(* upload or start turn changes nothing and returns DONE.                  *)
C3_SubmittedIsFrozen ==
  [][\A sid \in SessionIds :
       (Row(sid).status = "submitted" /\ lastTurn'.op \in {"message", "upload", "start"})
         => /\ SameSession(sessions'[sid], sessions[sid])
            /\ lastResp'.kind = "done"]_vars

(* C4: submit on an already-submitted session appends no second           *)
(* Submission row and returns the DONE response again.                     *)
C4_SubmitIdempotent ==
  [][\A sid \in SessionIds :
       (Row(sid).status = "submitted" /\ lastTurn'.op = "submit")
         => /\ submissions' = submissions
            /\ lastResp'.kind = "done"]_vars

(* C5: within a record (cursor + 1 < fields.length), a valid answer        *)
(* followed at once by back asks the same field again with the same        *)
(* cursor, draft, committed list and progress as before the answer.        *)
C5_BackUndoesAnswer ==
  \A sid \in SessionIds :
    LET row == Row(sid) IN
    (InAsk(row) /\ row.field_index + 1 < FieldsPer) =>
      \A turn \in AnswerTurns :
        ValidAnswer(row, turn) =>
          LET r1     == ApplyTurn(DB, sid, turn)
              r2     == ApplyTurn(r1.db, sid, BackTurn)
              after  == r2.db.sessions[sid]
              before == progressFor(row, form)
          IN /\ r2.res.kind = "ask"
             /\ r2.res.fieldId = FieldAt(form, row.field_index).id
             /\ after.field_index = row.field_index
             /\ parseState(after.answers_json) = parseState(row.answers_json)
             /\ r2.res.progress = [done |-> before.done, total |-> before.total]

C5_Witness ==
  /\ IsBack(lastTurn)
  /\ lastTurn.afterAccepted
  /\ lastResp.kind = "ask"
  /\ \E sid \in SessionIds :
       /\ InAsk(Row(sid))
       /\ Cursor(sid) + 1 < FieldsPer
       /\ Cursor(sid) >= 1
       /\ Len(Refs(sid)) >= 1

FreshRow ==
  [exists |-> TRUE, field_index |-> 0, answers_json |-> stringify(EmptyState),
   status |-> "in_progress"]

(* C6: restart on a session that is not submitted clears committed and     *)
(* draft, sets the cursor to 0, keeps status in_progress and returns ASK   *)
(* for the first field with progress {done: 0, total: N*F}.                *)
C6_RestartClears ==
  [][\A sid \in SessionIds :
       (IsRestart(lastTurn') /\ Row(sid).status # "submitted")
         => /\ sessions'[sid] = FreshRow
            /\ lastResp'.kind = "ask"
            /\ lastResp'.fieldId = FieldAt(form, 0).id
            /\ lastResp'.progress = [done |-> 0, total |-> Total]]_vars

C6_Witness ==
  /\ IsRestart(lastTurn)
  /\ lastTurn.afterAccepted
  /\ lastResp.kind = "ask"
  /\ lastResp.progress = [done |-> 0, total |-> Total]
  /\ \A sid \in SessionIds : Row(sid) = FreshRow

(* C7: restart on a submitted session is refused: status stays submitted   *)
(* and committed, draft and cursor are unchanged.                          *)
C7_RestartRefusedWhenSubmitted ==
  [][\A sid \in SessionIds :
       (IsRestart(lastTurn') /\ Row(sid).status = "submitted")
         => SameSession(sessions'[sid], sessions[sid])]_vars

(* C8: over answer and uploadAck turns (valid, invalid, mismatched or      *)
(* stale), the progress.done of a response is never below the              *)
(* progress.done of the response before it.                                *)
C8_ProgressNonDecreasing ==
  [][(AnswerOrUpload(lastTurn') /\ HasProgress(lastResp) /\ HasProgress(lastResp'))
        => lastResp'.progress.done >= lastResp.progress.done]_vars

C8_Witness ==
  /\ AnswerOrUpload(lastTurn)
  /\ lastTurn.accepted
  /\ lastTurn.afterAccepted
  /\ lastResp.kind = "ask"
  /\ lastResp.progress.done > FieldsPer

(* C9: every ASK and REVIEW response has total = fields.length *           *)
(* targetRecordCount and done = min(committed.length * fields.length +     *)
(* fieldCursor, total) of the state persisted by the turn, and             *)
(* 0 <= done <= total.                                                     *)
C9_ProgressFormula ==
  \A sid \in SessionIds :
    HasProgress(lastResp) =>
      /\ lastResp.progress.total = FieldsPer * form.targetCount
      /\ lastResp.progress.done =
           Min(Len(Refs(sid)) * FieldsPer + Cursor(sid), lastResp.progress.total)
      /\ 0 <= lastResp.progress.done
      /\ lastResp.progress.done <= lastResp.progress.total

C9_Witness ==
  /\ lastResp.kind = "ask"
  /\ IsBack(lastTurn)
  /\ \E sid \in SessionIds : Len(Refs(sid)) >= 1 /\ Cursor(sid) >= 1
  /\ lastResp.progress.done > FieldsPer
  /\ lastResp.progress.done < lastResp.progress.total

(* The text of the 1-based index k *)
IndexText(k) == <<Digits[k + 1]>>

(* The value stored for a field by the turn just applied: in the draft,    *)
(* or in the record just committed.                                        *)
StoredValue(row, id) ==
  LET st == parseState(row.answers_json) IN
  IF id \in DOMAIN st.__draft THEN st.__draft[id]
  ELSE IF st.__refs # <<>> /\ id \in DOMAIN Last(st.__refs) THEN Last(st.__refs)[id]
  ELSE StrVal(<<"u", "n", "d", "e", "f", "i", "n", "e", "d">>)

(* C10: for a choice field with options O, the exact label O[k] and the    *)
(* 1-based index k+1 are both accepted, store the same canonical value     *)
(* O[k] and lead to the same next state.                                   *)
C10_LabelAndIndexAgree ==
  \A sid \in SessionIds :
    LET row == Row(sid) IN
    (InAsk(row) /\ FieldAt(form, row.field_index).type = "select") =>
      LET field == FieldAt(form, row.field_index) IN
      \A k \in 1..Len(field.options) :
        LET byLabel == ApplyTurn(DB, sid, MessageTurn(field.options[k]))
            byIndex == ApplyTurn(DB, sid, MessageTurn(IndexText(k)))
        IN /\ ValidAnswer(row, MessageTurn(field.options[k]))
           /\ ValidAnswer(row, MessageTurn(IndexText(k)))
           /\ StoredValue(byLabel.db.sessions[sid], field.id) = StrVal(field.options[k])
           /\ StoredValue(byIndex.db.sessions[sid], field.id) = StrVal(field.options[k])
           /\ byLabel.db = byIndex.db

----------------------------------------------------------------------------
(* Rejected turns *)

ErrorMessages ==
  {"enter_value", "valid_number", "choose_option", "valid_email", "number_min", "number_max"}

(* A free-text answer the Validator rejects for the non-file field asked.  *)
FailedAnswer(row, turn) ==
  /\ turn.op = "message"
  /\ ~IsCommand(turn.text)
  /\ InAsk(row)
  /\ FieldAt(form, row.field_index).type # "file"
  /\ ~Validate(FieldAt(form, row.field_index), turn.text).ok

ProgressOf(row) ==
  [done |-> progressFor(row, form).done, total |-> progressFor(row, form).total]

(* C11: a failed validation mutates nothing: the persisted cursor, draft,  *)
(* committed list and status are unchanged, and the response is ASK for    *)
(* the same field, carrying the error message and the same progress.       *)
C11_FailedValidationMutatesNothing ==
  [][\A sid \in SessionIds :
       FailedAnswer(Row(sid), lastTurn')
         => /\ SameSession(sessions'[sid], sessions[sid])
            /\ lastResp'.kind = "ask"
            /\ lastResp'.fieldId = FieldAt(form, Cursor(sid)).id
            /\ lastResp'.message \in ErrorMessages
            /\ lastResp'.message = Validate(FieldAt(form, Cursor(sid)), lastTurn'.text).error
            /\ lastResp'.progress = ProgressOf(Row(sid))]_vars

C11_Witness ==
  /\ lastTurn.op = "message"
  /\ ~IsCommand(lastTurn.text)
  /\ ~lastTurn.accepted
  /\ lastResp.kind = "ask"
  /\ lastResp.message \in ErrorMessages
  /\ \E sid \in SessionIds :
       /\ Cursor(sid) >= 1
       /\ Len(Refs(sid)) >= 1
       /\ Draft(sid) # EmptyDraft

(* A free-text message, not a command, while a file field is asked.        *)
TextAtFileField(row, turn) ==
  /\ turn.op = "message"
  /\ ~IsCommand(turn.text)
  /\ InAsk(row)
  /\ FieldAt(form, row.field_index).type = "file"

(* C12: while the field at the cursor is a file field, a free-text message *)
(* other than back/restart is answered by an ASK re-prompt for that file   *)
(* field; cursor, draft and committed are unchanged.                       *)
C12_TextAtFileFieldRejected ==
  [][\A sid \in SessionIds :
       TextAtFileField(Row(sid), lastTurn')
         => /\ SameSession(sessions'[sid], sessions[sid])
            /\ lastResp'.kind = "ask"
            /\ lastResp'.fieldId = FieldAt(form, Cursor(sid)).id
            /\ lastResp'.message = "upload"
            /\ lastResp'.progress = ProgressOf(Row(sid))]_vars

C12_Witness ==
  /\ lastTurn.op = "message"
  /\ ~IsCommand(lastTurn.text)
  /\ lastResp.kind = "ask"
  /\ lastResp.message = "upload"
  /\ lastResp.fieldId = "doc"
  /\ \E sid \in SessionIds :
       /\ Len(Refs(sid)) >= 1
       /\ FieldAt(form, Cursor(sid)).type = "file"

(* expected && expected.id === fieldId && expected.type === "file" *)
UploadMatches(row, fieldId) ==
  /\ HasField(form, row.field_index)
  /\ FieldAt(form, row.field_index).id = fieldId
  /\ FieldAt(form, row.field_index).type = "file"

(* C13: an uploadAck is accepted only when the field at the cursor is a    *)
(* file field with the given id; any other uploadAck leaves cursor, draft, *)
(* committed and status unchanged and returns the current prompt, with no  *)
(* error.                                                                  *)
C13_MismatchedUploadIgnored ==
  [][\A sid \in SessionIds :
       (lastTurn'.op = "upload" /\ ~UploadMatches(Row(sid), lastTurn'.fieldId))
         => /\ SameSession(sessions'[sid], sessions[sid])
            /\ lastResp'.kind \in {"ask", "review", "done"}
            /\ lastResp'.message \notin ErrorMessages
            /\ InAsk(Row(sid)) =>
                 /\ lastResp'.kind = "ask"
                 /\ lastResp'.fieldId = FieldAt(form, Cursor(sid)).id
                 /\ lastResp'.progress = ProgressOf(Row(sid))]_vars

C13_Witness ==
  /\ lastTurn.op = "upload"
  /\ lastTurn.fieldId = "doc"
  /\ ~lastTurn.accepted
  /\ lastResp.kind = "ask"
  /\ lastResp.fieldId = "age"
  /\ \E sid \in SessionIds :
       /\ Cursor(sid) = 1
       /\ "doc" \in DOMAIN Draft(sid)

----------------------------------------------------------------------------
(* Submit and the shape of the draft *)

(* The draft holds a non-empty value for every field of the schema.        *)
DraftFull(draft) ==
  \A j \in 1..FieldsPer :
     /\ form.fields[j].id \in DOMAIN draft
     /\ ~IsBlank(draft[form.fields[j].id])

(* C14: submit on a session in ASK whose draft does not hold a value for   *)
(* every schema field writes no Submission row and leaves the status       *)
(* in_progress.                                                            *)
C14_SubmitNeedsCompleteRecord ==
  [][\A sid \in SessionIds :
       (/\ lastTurn'.op = "submit"
        /\ Row(sid).exists
        /\ InAsk(Row(sid))
        /\ ~DraftFull(Draft(sid)))
         => /\ submissions' = submissions
            /\ sessions'[sid].status = "in_progress"]_vars

(* C15: submit in ASK with a draft holding a non-empty value for every     *)
(* field and committed.length = targetRecordCount - 1 appends the draft    *)
(* to committed and empties it, so that the stored session, the Submission *)
(* snapshot and the DONE payload hold targetRecordCount records.           *)
C15_SubmitSafetyNetCommits ==
  [][\A sid \in SessionIds :
       (/\ lastTurn'.op = "submit"
        /\ Row(sid).exists
        /\ InAsk(Row(sid))
        /\ DraftFull(Draft(sid))
        /\ Len(Refs(sid)) = TotalRefs - 1)
         => /\ Len(parseState(sessions'[sid].answers_json).__refs) = TotalRefs
            /\ parseState(sessions'[sid].answers_json).__draft = EmptyDraft
            /\ Len(submissions') = Len(submissions) + 1
            /\ Last(submissions').answers_json.refs = TotalRefs
            /\ lastResp'.kind = "done"
            /\ lastResp'.hasState => Len(lastResp'.answers_json.__refs) = TotalRefs]_vars

(* The ids of the fields before the cursor: those answered in the current  *)
(* record.                                                                 *)
AnsweredIds(cursor) ==
  { form.fields[j].id : j \in 1..Min(cursor, FieldsPer) }

(* C16: in every in-progress state the draft holds keys only for fields    *)
(* already answered in the current record: keys(draft) is a subset of      *)
(* {fields[j].id : j < fieldCursor}.                                       *)
C16_DraftKeysBeforeCursor ==
  \A sid \in SessionIds :
    Row(sid).status = "in_progress" =>
      DOMAIN Draft(sid) \subseteq AnsweredIds(Cursor(sid))

(* C17: 0 <= fieldCursor <= fields.length in every state, and in ASK (in   *)
(* progress, records missing) fieldCursor < fields.length.                 *)
C17_CursorInRange ==
  \A sid \in SessionIds :
    /\ 0 <= Cursor(sid)
    /\ Cursor(sid) <= FieldsPer
    /\ (Row(sid).status = "in_progress" /\ Len(Refs(sid)) < TotalRefs)
         => Cursor(sid) < FieldsPer

C17_Witness ==
  /\ IsBack(lastTurn)
  /\ lastResp.kind = "ask"
  /\ FieldsPer >= 2
  /\ \E sid \in SessionIds :
       /\ Cursor(sid) = FieldsPer - 1
       /\ Len(Refs(sid)) >= 1
       /\ Len(Refs(sid)) < TotalRefs

(* C18: when a valid answer to the last field commits record k and field   *)
(* 0 of record k+1 is asked, back returns ASK for the last field of record *)
(* k, with committed shortened by one, progress.done one less than before  *)
(* the back, and a draft holding record k's earlier answers without the    *)
(* value of the last field.                                                *)
C18_BackAcrossRecordBoundary ==
  \A sid \in SessionIds :
    LET row == Row(sid) IN
    (/\ InAsk(row)
     /\ row.field_index = FieldsPer - 1
     /\ Len(Refs(sid)) + 1 < TotalRefs) =>
      \A turn \in AnswerTurns :
        ValidAnswer(row, turn) =>
          LET lastField == FieldAt(form, FieldsPer - 1)
              r1     == ApplyTurn(DB, sid, turn)
              mid    == parseState(r1.db.sessions[sid].answers_json)
              r2     == ApplyTurn(r1.db, sid, BackTurn)
              after  == r2.db.sessions[sid]
              st     == parseState(after.answers_json)
          IN /\ r1.res.kind = "ask"
             /\ r1.res.fieldId = FieldAt(form, 0).id
             /\ r2.res.kind = "ask"
             /\ r2.res.fieldId = lastField.id
             /\ after.field_index = FieldsPer - 1
             /\ st.__refs = Front(mid.__refs)
             /\ r2.res.progress.done = r1.res.progress.done - 1
             /\ st.__draft = DraftDelete(Last(mid.__refs), lastField.id)

----------------------------------------------------------------------------
(* Store failures.  The engine runs each statement of a turn on its own    *)
(* (db.prepare(...).run(...)), with no transaction around them, and a      *)
(* statement that fails throws out of the handler.  The turns with two     *)
(* writes are submit (INSERT INTO submissions, then the UPDATE of          *)
(* saveState) and an accepted upload (INSERT INTO files, then the UPDATE). *)

(* submitSession when its saveState throws: the INSERT has been done.      *)
submitSessionUpdateThrows(db, f, sid) ==
  LET session == getSessionRow(db, sid)
      state   == commitDraftIfComplete(f, parseState(session.answers_json))
  IN Thrown(InsertSubmission(db, SubmissionRow(sid, f.id, Snapshot(state))), sid)

(* recordFileAndAdvance when its saveState throws: the file row is in.     *)
recordFileUpdateThrows(db, f, sid, fieldId, file) ==
  Thrown(InsertFile(upsertSession(db, sid), FileRow(sid, fieldId, file)), sid)

(* A turn that threw: the engine accepted nothing. *)
ApplyFailed(r, turn) ==
  /\ sessions' = r.db.sessions
  /\ submissions' = r.db.submissions
  /\ files' = r.db.files
  /\ lastResp' = r.res
  /\ lastTurn' = [op |-> turn.op, text |-> turn.text, fieldId |-> turn.fieldId,
                  accepted |-> FALSE, afterAccepted |-> lastTurn.accepted]
  /\ validTurns' = -1
  /\ UNCHANGED <<form, impl, inflight>>

SubmitUpdateFails(sid) ==
  /\ Len(submissions) < MaxSubmissions
  /\ sessions[sid].exists
  /\ ApplyFailed(submitSessionUpdateThrows(DB, form, sid), Turn("submit", <<>>, ""))

UploadUpdateFails(sid, fieldId, file) ==
  /\ UploadMatches(sessions[sid], fieldId)
  /\ ApplyFailed(recordFileUpdateThrows(DB, form, sid, fieldId, file),
                 Turn("upload", <<>>, fieldId))

(* The failure runs take the revision the routes import and the form with  *)
(* a file field followed by other fields.                                  *)
InitFail ==
  /\ Init
  /\ impl = "engine_ts"
  /\ form.id = "intake"
  /\ form.targetCount = 1

NextFail ==
  \/ Next
  \/ \E sid \in SessionIds : SubmitUpdateFails(sid)
  \/ \E sid \in SessionIds, fieldId \in UploadFieldIds, file \in FileMetas :
        UploadUpdateFails(sid, fieldId, file)

SpecFail == InitFail /\ [][NextFail]_vars

(* C19: a turn is all-or-nothing with respect to the store: a turn that    *)
(* fails leaves no session change, no Submission row and no file row       *)
(* behind, so there is never a Submission row written by a failed submit   *)
(* whose session is still in_progress.                                     *)
C19_TurnAllOrNothing ==
  [][lastResp'.kind = "throw"
       => /\ sessions' = sessions
          /\ submissions' = submissions
          /\ files' = files]_vars

----------------------------------------------------------------------------
(* Concurrent turns.  A handler reads the session row (the SELECT of       *)
(* upsertSession or getSessionRow), computes on that copy and writes with  *)
(* the UPDATE of saveState; no transaction or lock joins the read to the   *)
(* write, so the statements of two callers of one database can interleave. *)
(* The turns taken here are free-text answers and submit, whose handlers   *)
(* read the row once.                                                      *)

RaceTexts == {S_A, S_B}

LocalView_rereads(db, sid, row) == db

(* const session = upsertSession(...): the handler works on the row it read *)
LocalView(db, sid, row) == [db EXCEPT !.sessions[sid] = row]

RaceTurn(c) == Turn(inflight[c].op, inflight[c].text, "")

PendingSubmits == Cardinality({c \in Clients : inflight[c].op = "submit"})

BeginMessage(c, sid, text) ==
  /\ inflight[c].pc = "idle"
  /\ sessions' = upsertSession(DB, sid).sessions
  /\ inflight' = [inflight EXCEPT ![c] =
                    [pc |-> "read", op |-> "message", text |-> text, row |-> sessions'[sid]]]
  /\ UNCHANGED <<submissions, files, form, impl, lastTurn, lastResp, validTurns>>

BeginSubmit(c, sid) ==
  /\ inflight[c].pc = "idle"
  /\ getSessionRow(DB, sid).exists
  /\ Len(submissions) + PendingSubmits < MaxSubmissions
  /\ inflight' = [inflight EXCEPT ![c] =
                    [pc |-> "read", op |-> "submit", text |-> <<>>, row |-> getSessionRow(DB, sid)]]
  /\ UNCHANGED <<sessions, submissions, files, form, impl, lastTurn, lastResp, validTurns>>

EndMessage(c, sid) ==
  /\ inflight[c].pc = "read"
  /\ inflight[c].op = "message"
  /\ LET view     == LocalView(DB, sid, inflight[c].row)
         r        == handleUserMessage(view, form, sid, inflight[c].text, 1)
         saved    == r.db.sessions[sid] # view.sessions[sid]
         accepted == ValidAnswer(view.sessions[sid], RaceTurn(c))
     IN \E ack \in PhraseChoices(r.res) :
          /\ sessions' = IF saved THEN [sessions EXCEPT ![sid] = r.db.sessions[sid]]
                         ELSE sessions
          /\ lastResp' = [r.res EXCEPT !.ack = ack]
          /\ lastTurn' = [op |-> "message", text |-> inflight[c].text, fieldId |-> "",
                          accepted |-> accepted, afterAccepted |-> lastTurn.accepted]
          /\ validTurns' = IF accepted THEN validTurns + 1 ELSE validTurns
  /\ inflight' = [inflight EXCEPT ![c] = Idle]
  /\ UNCHANGED <<submissions, files, form, impl>>

EndSubmit(c, sid) ==
  /\ inflight[c].pc = "read"
  /\ inflight[c].op = "submit"
  /\ LET r == submitSession(LocalView(DB, sid, inflight[c].row), form, sid)
     IN /\ sessions' = [sessions EXCEPT ![sid] = r.db.sessions[sid]]
        /\ submissions' = r.db.submissions
        /\ lastResp' = r.res
        /\ lastTurn' = [op |-> "submit", text |-> <<>>, fieldId |-> "",
                        accepted |-> FALSE, afterAccepted |-> lastTurn.accepted]
  /\ inflight' = [inflight EXCEPT ![c] = Idle]
  /\ UNCHANGED <<files, form, impl, validTurns>>

(* The concurrent runs take the revision the routes import and the form of *)
(* two text fields with one record.                                        *)
InitRace ==
  /\ Init
  /\ impl = "engine_ts"
  /\ form.id = "refs"
  /\ form.targetCount = 1

NextRace ==
  \/ \E c \in Clients, sid \in SessionIds, text \in RaceTexts : BeginMessage(c, sid, text)
  \/ \E c \in Clients, sid \in SessionIds : BeginSubmit(c, sid)
  \/ \E c \in Clients, sid \in SessionIds : EndMessage(c, sid)
  \/ \E c \in Clients, sid \in SessionIds : EndSubmit(c, sid)

SpecRace == InitRace /\ [][NextRace]_vars

Finishes(c) == inflight[c].pc = "read" /\ inflight'[c].pc = "idle"

(* C20: last writer wins.  When a caller finishes a valid answer, the      *)
(* persisted session is the row that caller read advanced by its one       *)
(* answer, whatever another caller has written since that read: of two     *)
(* concurrent valid answers read from the same row only one is reflected   *)
(* in the cursor and the draft.  Every submit that read the session        *)
(* appends a Submission row, so two concurrent submits append two.         *)
C20_LastWriterWins ==
  [][\A c \in Clients, sid \in SessionIds :
       /\ (Finishes(c) /\ inflight[c].op = "message"
                       /\ ValidAnswer(inflight[c].row, RaceTurn(c)))
            => LET snap  == inflight[c].row
                   field == FieldAt(form, snap.field_index)
               IN /\ ProgressOf(sessions'[sid]).done = ProgressOf(snap).done + 1
                  /\ StoredValue(sessions'[sid], field.id) =
                       Validate(field, inflight[c].text).value
                  /\ \A id \in DOMAIN parseState(sessions'[sid].answers_json).__draft :
                       id = field.id \/ id \in DOMAIN parseState(snap.answers_json).__draft
       /\ (Finishes(c) /\ inflight[c].op = "submit")
            => /\ Len(submissions') = Len(submissions) + 1
               /\ sessions'[sid].status = "submitted"]_vars

(* Two answers were accepted and one is stored; two submits that both read *)
(* the session in progress have each appended a row.                       *)
C20_Witness ==
  /\ validTurns = 2
  /\ \A c \in Clients : inflight[c].pc = "idle"
  /\ lastTurn.op = "submit"
  /\ Len(submissions) = 2
  /\ \A sid \in SessionIds :
       /\ ProgressOf(Row(sid)).done = 1
       /\ DOMAIN Draft(sid) = {"name"}
       /\ Row(sid).status = "submitted"

----------------------------------------------------------------------------
(* Unknown sessions and the back command *)

TurnOf(t) == Turn(t.op, t.text, t.fieldId)

(* A response apart from the acknowledgment phrase picked for it.          *)
SameResponse(r1, r2) ==
  /\ [r1 EXCEPT !.ack = 0] = [r2 EXCEPT !.ack = 0]
  /\ (r1.ack = 0) <=> (r2.ack = 0)

(* The database with a session as upsertSession creates it.                *)
WithFreshSession(db, sid) == [db EXCEPT !.sessions[sid] = NewRow]

(* C22: an answer, back, restart or uploadAck for a sessionId unknown to   *)
(* the store is not an error: a fresh in_progress session is created and   *)
(* the turn behaves exactly as on a fresh session.                         *)
C22_UnknownSessionIsFresh ==
  [][\A sid \in SessionIds :
       (~Row(sid).exists /\ lastTurn'.op \in {"message", "upload"})
         => LET r == ApplyTurn(WithFreshSession(DB, sid), sid, TurnOf(lastTurn'))
            IN /\ sessions'[sid].exists
               /\ lastResp'.kind \in {"ask", "review"}
               /\ SameSession(sessions'[sid], r.db.sessions[sid])
               /\ SameResponse(lastResp', r.res)]_vars

C22_Witness ==
  /\ validTurns = 1
  /\ lastTurn.accepted
  /\ lastResp.kind = "ask"
  /\ lastResp.progress.done = 1
  /\ \A sid \in SessionIds :
       /\ Row(sid).exists
       /\ Row(sid).status = "in_progress"
       /\ ProgressOf(Row(sid)).done = 1

(* REVIEW: in progress with every record committed.                        *)
InReview(row) ==
  /\ row.exists
  /\ row.status = "in_progress"
  /\ Len(parseState(row.answers_json).__refs) >= TotalRefs

(* The outcome the spec gives for back out of REVIEW: the last committed   *)
(* record becomes the draft, the cursor is fields.length - 1, ASK for the  *)
(* last field.                                                             *)
PoppedIntoDraft(before, after, res) ==
  LET b == parseState(before.answers_json)
      a == parseState(after.answers_json)
  IN /\ a.__refs = Front(b.__refs)
     /\ a.__draft = Last(b.__refs)
     /\ after.field_index = FieldsPer - 1
     /\ after.status = "in_progress"
     /\ res.kind = "ask"
     /\ res.fieldId = FieldAt(form, FieldsPer - 1).id

(* C24: back from REVIEW with committed non-empty removes the last         *)
(* committed record, makes it the draft, sets the cursor to                *)
(* fields.length - 1 and returns ASK for the last field; the earlier       *)
(* records are unchanged and the status stays in_progress.                 *)
C24_BackFromReview ==
  [][\A sid \in SessionIds :
       (impl = "engine_ts" /\ IsBack(lastTurn') /\ InReview(Row(sid)))
         => PoppedIntoDraft(sessions[sid], sessions'[sid], lastResp')]_vars

(* C25: back from ASK with cursor > 0 removes exactly the key              *)
(* fields[cursor-1].id from the draft, decrements the cursor and stays in  *)
(* ASK; the other draft keys and the committed list are unchanged.         *)
C25_BackWithinRecord ==
  [][\A sid \in SessionIds :
       (IsBack(lastTurn') /\ Row(sid).exists /\ InAsk(Row(sid)) /\ Cursor(sid) > 0)
         => LET prev == FieldAt(form, Cursor(sid) - 1).id
                a    == parseState(sessions'[sid].answers_json)
            IN /\ sessions'[sid].field_index = Cursor(sid) - 1
               /\ sessions'[sid].status = "in_progress"
               /\ a.__refs = Refs(sid)
               /\ DOMAIN a.__draft = DOMAIN Draft(sid) \ {prev}
               /\ \A k \in DOMAIN a.__draft : a.__draft[k] = Draft(sid)[k]
               /\ lastResp'.kind = "ask"
               /\ lastResp'.fieldId = prev]_vars

C25_Witness ==
  /\ IsBack(lastTurn)
  /\ lastResp.kind = "ask"
  /\ FieldsPer = 3
  /\ \E sid \in SessionIds :
       /\ Cursor(sid) = 1
       /\ DOMAIN Draft(sid) = {"doc"}
       /\ Len(Refs(sid)) = 1

(* C26: back from ASK with cursor = 0 and committed non-empty behaves as   *)
(* back from REVIEW (the last record popped into the draft, cursor =       *)
(* fields.length - 1); with committed empty it ends in the initial state:  *)
(* cursor 0, committed [], draft {}, ASK for the first field.              *)
C26_BackAtRecordStart ==
  [][\A sid \in SessionIds :
       (IsBack(lastTurn') /\ Row(sid).exists /\ InAsk(Row(sid)) /\ Cursor(sid) = 0)
         => IF Len(Refs(sid)) > 0
            THEN PoppedIntoDraft(sessions[sid], sessions'[sid], lastResp')
            ELSE /\ sessions'[sid].field_index = 0
                 /\ sessions'[sid].status = "in_progress"
                 /\ parseState(sessions'[sid].answers_json) = EmptyState
                 /\ lastResp'.kind = "ask"
                 /\ lastResp'.fieldId = FieldAt(form, 0).id
                 /\ lastResp'.progress = [done |-> 0, total |-> Total]]_vars

----------------------------------------------------------------------------
(* REVIEW, submission and the stored records *)

(* C27: a response is REVIEW exactly when the session is not submitted and *)
(* committed.length >= targetRecordCount, and in every such state the      *)
(* draft is empty.                                                         *)
C27_ReviewIffAllCommitted ==
  \A sid \in SessionIds :
    /\ lastResp.kind \in {"ask", "review", "done"}
         => ((lastResp.kind = "review")
               <=> (Row(sid).status # "submitted" /\ Len(Refs(sid)) >= TotalRefs))
    /\ InReview(Row(sid)) => Draft(sid) = EmptyDraft

HasSubmission(log, sid) == \E i \in 1..Len(log) : log[i].session_id = sid

(* C28: a submit writes a Submission snapshot of the session's state, sets *)
(* the status to submitted and returns DONE; a Submission row exists for a *)
(* session if and only if its status is submitted; and once submitted      *)
(* neither the session nor the log changes again.                          *)
C28_SubmissionIffSubmitted ==
  [][\A sid \in SessionIds :
       /\ (lastTurn'.op = "submit" /\ Row(sid).exists /\ Row(sid).status = "in_progress")
            => /\ Len(submissions') = Len(submissions) + 1
               /\ Last(submissions').session_id = sid
               /\ Last(submissions').answers_json =
                    Snapshot(parseState(sessions'[sid].answers_json))
               /\ sessions'[sid].status = "submitted"
               /\ lastResp'.kind = "done"
       /\ HasSubmission(submissions', sid) <=> sessions'[sid].status = "submitted"
       /\ Row(sid).status = "submitted"
            => /\ SameSession(sessions'[sid], sessions[sid])
               /\ submissions' = submissions]_vars

(* A record holds a value for every field, non-empty for each required     *)
(* field that is not a file field.                                         *)
RecordComplete(rec) ==
  \A j \in 1..FieldsPer :
     LET field == form.fields[j] IN
     /\ field.id \in DOMAIN rec
     /\ (field.required /\ field.type # "file") => ~IsBlank(rec[field.id])

(* C29: every committed record is complete, in every reachable state.      *)
C29_CommittedRecordsComplete ==
  \A sid \in SessionIds :
    impl = "engine_ts" =>
      \A i \in 1..Len(Refs(sid)) : RecordComplete(Refs(sid)[i])

(* The raw answers tried against a choice field.                           *)
ChoiceTexts ==
  TurnTexts \cup {S_B, <<"a">>, <<"C">>, <<"0">>, <<"3">>, <<"A", "B">>, <<"1", " ">>}

(* raw names an option: by its label without regard to case and outer      *)
(* blanks, or by its 1-based index.                                        *)
NamesOption(opts, raw) ==
  \/ \E j \in 1..Len(opts) : toLowerCase(opts[j]) = toLowerCase(trim(raw))
  \/ /\ ~NumberOf(trim(raw)).nan
     /\ NumberOf(trim(raw)).n \in 1..Len(opts)

IsOption(field, v) == v.k = "string" /\ \E j \in 1..Len(field.options) : field.options[j] = v.s

(* C30: every value stored for a choice field, in the draft or in a        *)
(* committed record, is one of its option strings in the canonical         *)
(* spelling; a raw answer that names no option is rejected.                *)
C30_ChoiceValuesCanonical ==
  \A sid \in SessionIds :
    \A j \in 1..FieldsPer :
      LET field == form.fields[j] IN
      field.type = "select" =>
        /\ field.id \in DOMAIN Draft(sid) => IsOption(field, Draft(sid)[field.id])
        /\ \A i \in 1..Len(Refs(sid)) :
             field.id \in DOMAIN Refs(sid)[i] => IsOption(field, Refs(sid)[i][field.id])
        /\ \A raw \in ChoiceTexts :
             ~NamesOption(field.options, raw) => ~Validate(field, raw).ok

C30_Witness ==
  /\ lastTurn.op = "message"
  /\ lastTurn.text = S_padb
  /\ lastTurn.accepted
  /\ \E sid \in SessionIds :
       /\ Len(Refs(sid)) > 0
       /\ Last(Refs(sid))["role"] = StrVal(S_B)

----------------------------------------------------------------------------
(* A state blob that does not parse.  answers_json is a TEXT column; the   *)
(* engine only ever writes JSON.stringify(state) to it, so an unreadable   *)
(* value comes from outside the engine.  CorruptBlob replaces the blob of  *)
(* an existing row and leaves its other columns alone.                     *)

CorruptBlob(sid) ==
  /\ sessions[sid].exists
  /\ sessions[sid].status = "in_progress"
  /\ sessions[sid].answers_json.shape # "malformed"
  /\ sessions' = [sessions EXCEPT ![sid].answers_json = MalformedJson]
  /\ lastTurn' = [op |-> "corrupt", text |-> <<>>, fieldId |-> "",
                  accepted |-> FALSE, afterAccepted |-> FALSE]
  /\ lastResp' = NoResponse
  /\ validTurns' = -1
  /\ UNCHANGED <<submissions, files, form, impl, inflight>>

InitCorrupt ==
  /\ Init
  /\ impl = "engine_ts"
  /\ form.id = "intake"
  /\ form.targetCount = 1

NextCorrupt ==
  \/ Next
  \/ \E sid \in SessionIds : CorruptBlob(sid)

SpecCorrupt == InitCorrupt /\ [][NextCorrupt]_vars

WithEmptyState(db, sid) ==
  [db EXCEPT !.sessions[sid].answers_json = stringify(EmptyState)]

(* C23: a turn on a session whose stored blob does not parse runs on the   *)
(* empty state and ends with a normal ASK, REVIEW or DONE response, and    *)
(* the records committed afterwards hold a value for every field (in a     *)
(* session that has not been submitted).                                   *)
C23_MalformedStateDegrades ==
  [][\A sid \in SessionIds :
       /\ (Row(sid).exists /\ Row(sid).answers_json.shape = "malformed"
             /\ lastTurn'.op \in {"start", "message", "upload", "submit"})
            => LET r == ApplyTurn(WithEmptyState(DB, sid), sid, TurnOf(lastTurn'))
               IN /\ lastResp'.kind \in {"ask", "review", "done"}
                  /\ SameSession(sessions'[sid], r.db.sessions[sid])
       /\ submissions' = <<>>
            => \A i \in 1..Len(parseState(sessions'[sid].answers_json).__refs) :
                  RecordComplete(parseState(sessions'[sid].answers_json).__refs[i])]_vars

----------------------------------------------------------------------------
(* Recovery snapshot.  The message route reads fieldIndex and answersJson  *)
(* from the request body and hands them to the engine as recoveryState.    *)
(* The database file lives on the instance that serves the request, so     *)
(* another instance starts from an empty store.                            *)

NoValue == [k |-> "undefined", n |-> 0, state |-> EmptyState]

(* The bodies sent: fieldIndex absent, a number or a numeric string;       *)
(* answersJson absent, the empty string or a state object.                 *)
RequestBodies ==
  [text : {S_A, S_Back},
   fieldIndex : {NoValue} \cup {[k |-> k, n |-> n, state |-> EmptyState] :
                                   k \in {"number", "string"}, n \in 0..1},
   answersJson : {NoValue, [k |-> "empty", n |-> 0, state |-> EmptyState]}
                 \cup {[k |-> "object", n |-> 0, state |-> st] :
                         st \in {EmptyState,
                                 [__refs |-> <<>>, __draft |-> DraftSet(EmptyDraft, "name", StrVal(S_B))],
                                 [__refs |-> <<DraftSet(DraftSet(EmptyDraft, "name", StrVal(S_B)),
                                                        "role", StrVal(S_B))>>,
                                  __draft |-> EmptyDraft]}}]

RecoveryOf_ignoresBody(body) ==
  [present |-> FALSE, fieldIndex |-> 0, answersJson |-> EmptyState]

(* recoveryState is built only when fieldIndex is a number and answersJson *)
(* is truthy.                                                              *)
RecoveryOf(body) ==
  IF body.fieldIndex.k = "number" /\ body.answersJson.k = "object"
  THEN [present |-> TRUE, fieldIndex |-> body.fieldIndex.n,
        answersJson |-> body.answersJson.state]
  ELSE [present |-> FALSE, fieldIndex |-> 0, answersJson |-> EmptyState]

(* The row reconstructed from a snapshot.                                  *)
SnapshotRow(fieldIndex, state) ==
  [exists |-> TRUE, field_index |-> fieldIndex,
   answers_json |-> stringify(state), status |-> "in_progress"]

(* handleUserMessage with recoveryState: a snapshot is used only when the  *)
(* store holds no row for the session; the turn then runs as usual.        *)
handleUserMessage_recovery(db, frm, sid, userText, recovery, ack) ==
  IF ~db.sessions[sid].exists /\ recovery.present
  THEN handleUserMessage(
         [db EXCEPT !.sessions[sid] = SnapshotRow(recovery.fieldIndex, recovery.answersJson)],
         frm, sid, userText, ack)
  ELSE handleUserMessage(db, frm, sid, userText, ack)

StoreLost ==
  /\ \E sid \in SessionIds : sessions[sid].exists
  /\ sessions' = [sid \in SessionIds |-> NoRow]
  /\ submissions' = <<>>
  /\ files' = {}
  /\ lastTurn' = [op |-> "lost", text |-> <<>>, fieldId |-> "",
                  accepted |-> FALSE, afterAccepted |-> FALSE]
  /\ lastResp' = NoResponse
  /\ validTurns' = -1
  /\ UNCHANGED <<form, impl, inflight>>

MessageWithRecovery(sid, body) ==
  LET r == handleUserMessage_recovery(DB, form, sid, body.text, RecoveryOf(body), 1)
  IN \E ack \in PhraseChoices(r.res) :
       /\ sessions' = r.db.sessions
       /\ submissions' = r.db.submissions
       /\ files' = r.db.files
       /\ lastResp' = [r.res EXCEPT !.ack = ack]
       /\ lastTurn' = [op |-> "recover", text |-> body.text, fieldId |-> "",
                       accepted |-> FALSE, afterAccepted |-> FALSE,
                       body |-> body, rowExisted |-> sessions[sid].exists]
       /\ validTurns' = -1
       /\ UNCHANGED <<form, impl, inflight>>

InitRecovery ==
  /\ Init
  /\ impl = "engine_ts"
  /\ form.id = "refs"
  /\ form.targetCount = 1

NextRecovery ==
  \/ Next
  \/ StoreLost
  \/ \E sid \in SessionIds, body \in RequestBodies : MessageWithRecovery(sid, body)

SpecRecovery == InitRecovery /\ [][NextRecovery]_vars

----------------------------------------------------------------------------
(* Numbers, acknowledgments and progress steps *)

(* C31: every value stored for a number field, in the draft or in a        *)
(* committed record, is a number within the field's declared [min, max].   *)
C31_NumberWithinBounds ==
  \A sid \in SessionIds :
    \A j \in 1..FieldsPer :
      LET field == form.fields[j]
          InBounds(v) == /\ v.k = "number"
                         /\ field.hasMin => v.n >= field.min
                         /\ field.hasMax => v.n <= field.max
      IN field.type = "number" =>
           /\ field.id \in DOMAIN Draft(sid) => InBounds(Draft(sid)[field.id])
           /\ \A i \in 1..Len(Refs(sid)) :
                field.id \in DOMAIN Refs(sid)[i] => InBounds(Refs(sid)[i][field.id])

(* C32: a response carries an acknowledgment phrase only when it is an ASK *)
(* that follows a successful advance; REVIEW and DONE responses are never  *)
(* decorated.                                                              *)
C32_AckOnlyOnAdvance ==
  /\ lastResp.ack # 0 => (lastResp.kind = "ask" /\ lastTurn.accepted)
  /\ lastResp.kind \in {"review", "done"} => lastResp.ack = 0

----------------------------------------------------------------------------
(* Loading the form definition.  Every request names a formId; the engine  *)
(* reads forms/<formId>.json at the start of the turn.  A definition file  *)
(* is the form it describes together with what the file leaves out.        *)

FormFiles ==
  [hasId : BOOLEAN, hasFields : BOOLEAN, hasTargetCount : BOOLEAN, def : {form}]

loadForm(file) ==
  IF ~file.hasId \/ ~file.hasFields
  THEN [ok |-> FALSE, form |-> file.def]
  ELSE [ok |-> TRUE,
        form |-> IF file.hasTargetCount THEN file.def
                 ELSE [file.def EXCEPT !.targetCount = 1]]

TurnOnFile_upsertFirst(db, file, sid, turn) ==
  IF ~loadForm(file).ok THEN Thrown(upsertSession(db, sid), sid)
  ELSE ApplyTurn(db, sid, turn)

(* startOrContinue, handleUserMessage and recordFileAndAdvance load the    *)
(* form in their first statement; submitSession first looks the session up *)
(* and returns "Session not found." without loading anything.              *)
TurnOnFile(db, file, sid, turn) ==
  LET loaded == loadForm(file)
      f      == loaded.form
  IN IF turn.op = "submit" /\ ~getSessionRow(db, sid).exists
     THEN submitSession(db, f, sid)
     ELSE IF ~loaded.ok THEN Thrown(db, sid)
     ELSE IF turn.op = "submit" THEN submitSession(db, f, sid)
     ELSE IF turn.op = "message" THEN handleUserMessage(db, f, sid, turn.text, 1)
     ELSE IF turn.op = "upload"
     THEN recordFileAndAdvance(db, f, sid, turn.fieldId, TheFile, 1)
     ELSE startOrContinue(db, f, sid)

RequestOnFile(sid, file, turn) ==
  /\ turn.op = "submit" => Len(submissions) < MaxSubmissions
  /\ LET r == TurnOnFile(DB, file, sid, turn)
     IN \E ack \in PhraseChoices(r.res) :
          /\ sessions' = r.db.sessions
          /\ submissions' = r.db.submissions
          /\ files' = r.db.files
          /\ lastResp' = [r.res EXCEPT !.ack = ack]
          /\ lastTurn' = [op |-> turn.op, text |-> turn.text, fieldId |-> turn.fieldId,
                          accepted |-> FALSE, afterAccepted |-> FALSE,
                          file |-> file, rowExisted |-> sessions[sid].exists]
          /\ validTurns' = -1
          /\ UNCHANGED <<form, impl, inflight>>

InitLoad ==
  /\ Init
  /\ impl = "engine_ts"
  /\ form.id = "intake"
  /\ form.targetCount = 1

NextLoad ==
  \E sid \in SessionIds, file \in FormFiles,
     turn \in {Turn("start", <<>>, ""), Turn("submit", <<>>, "")}
              \cup {Turn("message", text, "") : text \in TurnTexts}
              \cup {Turn("upload", <<>>, fieldId) : fieldId \in UploadFieldIds} :
     RequestOnFile(sid, file, turn)

SpecLoad == InitLoad /\ [][NextLoad]_vars

----------------------------------------------------------------------------
(* The chat client.  src/app/demo/page.tsx guards its handlers with the    *)
(* React state isSending, which a handler reads as the value of the render *)
(* it was created in; src/unnamed/part_000 guards them with the ref        *)
(* sendingRef, which is read and written in place.  In this specification  *)
(* inflight is the one client: its page, its flags and the requests it has *)
(* sent and not yet had answered; lastResp is its bot.                     *)

ClientStart(sid) ==
  /\ ~inflight.started
  /\ LET r == startOrContinue(DB, form, sid) IN
       /\ sessions' = r.db.sessions
       /\ lastResp' = r.res
  /\ inflight' = [inflight EXCEPT !.started = TRUE]
  /\ lastTurn' = [lastTurn EXCEPT !.op = "start"]
  /\ UNCHANGED <<submissions, files, form, impl, validTurns>>

(* A re-render: the handlers now close over the current isSending.         *)
ClientRender ==
  /\ inflight.seen # inflight.isSending
  /\ inflight' = [inflight EXCEPT !.seen = inflight.isSending]
  /\ UNCHANGED <<sessions, submissions, files, form, impl, lastTurn, lastResp, validTurns>>

(* sendText, uploadFile or submit is called and passes its guard.          *)
ClientSend(turn) ==
  /\ inflight.started
  /\ Len(inflight.reqs) < MaxInFlight
  /\ IF inflight.ui = "page_tsx" THEN ~inflight.seen ELSE ~inflight.sendingRef
  /\ turn.op = "upload" =>
       /\ inflight.ui = "page_tsx"
       /\ lastResp.kind = "ask"
       /\ turn.fieldId = lastResp.fieldId
  /\ turn.op = "submit" => inflight.ui = "part_000"
  /\ inflight' = [inflight EXCEPT !.isSending = TRUE,
                                  !.sendingRef = (inflight.ui = "part_000"),
                                  !.reqs = Append(@, turn)]
  /\ UNCHANGED <<sessions, submissions, files, form, impl, lastTurn, lastResp, validTurns>>

(* The server handles request i and the handler that sent it resumes:      *)
(* setBot(r), then the finally block clears the flags.                     *)
ClientRespond(sid, i) ==
  LET turn == inflight.reqs[i]
      r    == ApplyTurn(DB, sid, turn)
  IN /\ i <= Len(inflight.reqs)
     /\ turn.op = "submit" => Len(submissions) < MaxSubmissions
     /\ turn.op = "upload" => Len(Refs(sid)) < Max(1, form.targetCount) + MaxOverflow
     /\ sessions' = r.db.sessions
     /\ submissions' = r.db.submissions
     /\ files' = r.db.files
     /\ lastResp' = r.res
     /\ lastTurn' = [lastTurn EXCEPT !.op = turn.op]
     /\ inflight' = [inflight EXCEPT
                       !.isSending = FALSE,
                       !.sendingRef = FALSE,
                       !.reqs = SubSeq(@, 1, i - 1) \o SubSeq(@, i + 1, Len(@))]
     /\ UNCHANGED <<form, impl, validTurns>>

InitClient ==
  /\ sessions = [sid \in SessionIds |-> NoRow]
  /\ submissions = <<>>
  /\ files = {}
  /\ form \in {f \in FormDefs : f.id = "intake" /\ f.targetCount = 1}
  /\ impl = "engine_ts"
  /\ inflight \in [ui : {"page_tsx", "part_000"}, started : {FALSE}, isSending : {FALSE},
                    seen : {FALSE}, sendingRef : {FALSE}, reqs : {<<>>}]
  /\ lastTurn = [op |-> "none", text |-> <<>>, fieldId |-> "",
                 accepted |-> FALSE, afterAccepted |-> FALSE]
  /\ lastResp = NoResponse
  /\ validTurns = -1

NextClient ==
  \/ \E sid \in SessionIds : ClientStart(sid)
  \/ ClientRender
  \/ \E turn \in {Turn("submit", <<>>, "")}
                  \cup {Turn("message", text, "") : text \in {S_A, S_2, S_Back}}
                  \cup {Turn("upload", <<>>, fieldId) : fieldId \in UploadFieldIds} :
        ClientSend(turn)
  \/ \E sid \in SessionIds, i \in 1..MaxInFlight : ClientRespond(sid, i)

SpecClient == InitClient /\ [][NextClient]_vars

(* C34: the client never has two turn requests in flight at once.          *)
C34_SingleFlight == Len(inflight.reqs) <= 1

----------------------------------------------------------------------------
(* Progress steps, termination and the read-only start *)

(* C35: progress.done is an exact step counter: an accepted answer or      *)
(* upload from ASK adds exactly 1, a back from ASK with done > 0 takes     *)
(* exactly 1 away, and a back from REVIEW yields done = total - 1.         *)
C35_ProgressStepsByOne ==
  [][\A sid \in SessionIds :
       (impl = "engine_ts" /\ Row(sid).exists) =>
         LET before == ProgressOf(Row(sid)).done
             after  == ProgressOf(sessions'[sid]).done
         IN /\ lastTurn'.accepted
                 => (after = before + 1 /\ lastResp'.progress.done = after)
            /\ (IsBack(lastTurn') /\ InAsk(Row(sid)) /\ before > 0)
                 => (after = before - 1 /\ lastResp'.progress.done = after)
            /\ (IsBack(lastTurn') /\ InReview(Row(sid)))
                 => (after = Total - 1 /\ lastResp'.progress.done = Total - 1)]_vars

(* C36: from every in_progress state that is not yet REVIEW, done < total  *)
(* and a valid answer or matching upload exists; each such turn adds       *)
(* exactly 1 to done and gives REVIEW exactly when done reaches total, so  *)
(* REVIEW is reached after total - done of them; a submit from REVIEW      *)
(* gives DONE.                                                             *)
C36_ValidAnswersReachReview ==
  [][\A sid \in SessionIds :
         LET before == ProgressOf(Row(sid)).done
             after  == ProgressOf(sessions'[sid]).done
         IN /\ InAsk(Row(sid))
                 => /\ before < Total
                    /\ \E turn \in AnswerTurns : ValidAnswer(Row(sid), turn)
            /\ lastTurn'.accepted
                 => /\ after = before + 1
                    /\ (lastResp'.kind = "review") <=> (after = Total)
                    /\ after < Total => (InAsk(sessions'[sid]) /\ lastResp'.kind = "ask")
            /\ (lastTurn'.op = "submit" /\ InReview(Row(sid)))
                 => /\ lastResp'.kind = "done"
                    /\ sessions'[sid].status = "submitted"]_vars

C36_Witness ==
  /\ impl = "engine_ts"
  /\ validTurns = -1
  /\ lastTurn.accepted
  /\ lastTurn.afterAccepted
  /\ lastResp.kind = "review"
  /\ FieldsPer = 3
  /\ \E sid \in SessionIds : Len(Refs(sid)) = 2 /\ TotalRefs = 2

(* C37: start/continue on a session the store holds changes nothing of it  *)
(* (cursor, state and status) and writes no other row; on a session the    *)
(* store does not hold it creates that one row, in_progress at cursor 0    *)
(* with the empty state, and returns ASK for the first field.              *)
C37_StartIsReadOnly ==
  [][\A sid \in SessionIds :
       lastTurn'.op = "start" =>
         /\ submissions' = submissions
         /\ files' = files
         /\ IF Row(sid).exists
            THEN sessions' = sessions
            ELSE /\ sessions' = [sessions EXCEPT ![sid] = NewRow]
                 /\ lastResp'.kind = "ask"
                 /\ lastResp'.fieldId = FieldAt(form, 0).id
                 /\ lastResp'.progress = [done |-> 0, total |-> Total]
                 /\ lastResp'.answers_json = EmptyState]_vars

C37_Witness ==
  /\ lastTurn.op = "start"
  /\ lastResp.kind = "ask"
  /\ lastResp.progress.done = 4
  /\ \E sid \in SessionIds :
       /\ Len(Refs(sid)) = 1
       /\ Cursor(sid) = 1
       /\ DOMAIN Draft(sid) = {"doc"}

(* C38: after an answer, upload or back turn on an in_progress session the *)
(* response has the kind, fieldId and progress that start/continue returns *)
(* when it reads the persisted session right afterwards.                   *)
C38_ResponseAgreesWithStore ==
  [][\A sid \in SessionIds :
       (/\ impl = "engine_ts"
        /\ Row(sid).status = "in_progress"
        /\ lastTurn'.op \in {"message", "upload"}
        /\ ~IsRestart(lastTurn'))
         => LET after == [sessions |-> sessions', submissions |-> submissions',
                          files |-> files']
                r     == startOrContinue(after, form, sid).res
            IN /\ lastResp'.kind = r.kind
               /\ lastResp'.fieldId = r.fieldId
               /\ lastResp'.progress = r.progress]_vars

C38_Witness ==
  /\ impl = "engine_ts"
  /\ IsBack(lastTurn)
  /\ lastResp.kind = "ask"
  /\ lastResp.fieldId = "role"
  /\ lastResp.progress = [done |-> 2, total |-> 6]
  /\ \E sid \in SessionIds :
       /\ Cursor(sid) = 2
       /\ Refs(sid) = <<>>
       /\ DOMAIN Draft(sid) = {"doc", "age", "role"}

(* C39: submit on a session the store does not hold returns DONE carrying  *)
(* no committed record and no draft value, and leaves the store as it was: *)
(* no session row is created and no Submission row is appended.            *)
C39_SubmitUnknownSession ==
  [][\A sid \in SessionIds :
       (lastTurn'.op = "submit" /\ ~Row(sid).exists)
         => /\ lastResp'.kind = "done"
            /\ lastResp'.answers_json = EmptyState
            /\ impl = "engine_ts" => lastResp'.hasState
            /\ sessions' = sessions
            /\ submissions' = submissions
            /\ files' = files]_vars

C39_Witness ==
  /\ lastTurn.op = "submit"
  /\ lastResp.kind = "done"
  /\ lastResp.message = "not_found"
  /\ submissions = <<>>
  /\ \A sid \in SessionIds : ~Row(sid).exists

====
